---- MODULE Spec2Model ----
(***************************************************************************)
(* Model of pandas_questions.py: the referendum pipeline                   *)
(*   load_data -> merge_regions_and_departments                            *)
(*             -> merge_referendum_and_areas                               *)
(*             -> compute_referendum_result_by_regions                     *)
(*             -> plot_referendum_map                                      *)
(*                                                                         *)
(* Representation.  A DataFrame is a sequence of rows; a row is a function *)
(* from column names to cell values.  Department codes are the strings the *)
(* code inspects character by character (str.isalpha, int(), str()), so    *)
(* they are sequences of one-character strings: "01" is <<"0","1">> and    *)
(* the empty string "" is <<>>.  Region codes, region names and department *)
(* names are only ever compared for equality and are plain strings.        *)
(* The ballot columns the code never reads ('Department name',             *)
(* 'Town name') are left out; 'Town code' is kept as the row's identity.   *)
(***************************************************************************)
EXTENDS Integers, Sequences, FiniteSets, TLC

VARIABLES pc, regions, departments, referendum,
          regions_and_departments, referendum_and_areas,
          referendum_results, region_map, gdf, err, plotted

vars == <<pc, regions, departments, referendum,
          regions_and_departments, referendum_and_areas,
          referendum_results, region_map, gdf, err, plotted>>

(***************************************************************************)
(* Bounds of the explored inputs.                                          *)
(***************************************************************************)
MaxRegions == 2

MaxDepartments == 2

MaxBallots == 2

MaxCount == 1

MaxGeo == 2

(***************************************************************************)
(* Strings as character sequences: str.isalpha, int(), str().              *)
(***************************************************************************)
Digits == <<"0", "1", "2", "3", "4", "5", "6", "7", "8", "9">>

Letters == {"A", "B", "C", "D", "E", "F", "G", "H", "I", "J", "K", "L", "M",
            "N", "O", "P", "Q", "R", "S", "T", "U", "V", "W", "X", "Y", "Z"}

IsDigit(c) == \E d \in 1..10 : Digits[d] = c

DigitVal(c) == (CHOOSE d \in 1..10 : Digits[d] = c) - 1

\* str.isalpha(): at least one character and every character alphabetic.
isalpha(s) == Len(s) > 0 /\ \A i \in 1..Len(s) : s[i] \in Letters

\* int(s) succeeds: over the characters modelled (digits and letters) this
\* is a non-empty all-digit string.
ParsesAsInt(s) == Len(s) > 0 /\ \A i \in 1..Len(s) : IsDigit(s[i])

RECURSIVE IntOf(_)
IntOf(s) ==
    IF Len(s) = 0 THEN 0
    ELSE IntOf(SubSeq(s, 1, Len(s) - 1)) * 10 + DigitVal(s[Len(s)])

RECURSIVE StrOf(_)
StrOf(n) ==
    IF n < 10 THEN <<Digits[n + 1]>>
    ELSE Append(StrOf(n \div 10), Digits[(n % 10) + 1])

\* try: dep_code = str(int(dep_code))  except: pass
NormDepCode(code) == IF ParsesAsInt(code) THEN StrOf(IntOf(code)) ELSE code

(***************************************************************************)
(* Input universes.  load_data reads three CSV files; their contents are   *)
(* the inputs of the run.                                                  *)
(***************************************************************************)
Str01 == <<"0", "1">>

Str1 == <<"1">>

Str2A == <<"2", "A">>

StrZZ == <<"Z", "Z">>

EmptyStr == <<>>

RegionCodes == {"84", "94"}

RegionNames == {"Auvergne-Rhone-Alpes", "Corse"}

\* The region names in lexicographic order, with the empty string first.
NameOrder == <<"", "Auvergne-Rhone-Alpes", "Corse">>

DepartmentCodes == {Str01, Str1, Str2A}

DepartmentNames == <<"Ain", "Aisne", "Allier", "Alpes">>

BallotCodes == {Str1, Str01, Str2A, StrZZ}

Polygons == <<"polygon1", "polygon2", "polygon3", "polygon4">>

SeqUpTo(S, n) == UNION {[1..k -> S] : k \in 0..n}

\* One row of referendum.csv.
BallotRow(town, code, abst, null, a, b) ==
    ("Department code" :> code) @@ ("Town code" :> town) @@
    ("Registered" :> abst + null + a + b) @@ ("Abstentions" :> abst) @@
    ("Null" :> null) @@ ("Choice A" :> a) @@ ("Choice B" :> b)

ReferenceRegions ==
    <<[code |-> "84", name |-> "Auvergne-Rhone-Alpes"],
      [code |-> "94", name |-> "Corse"]>>

ReferenceDepartments ==
    <<[region_code |-> "84", code |-> Str01, name |-> "Ain"],
      [region_code |-> "94", code |-> Str2A, name |-> "Corse-du-Sud"]>>

ReferenceReferendum ==
    <<BallotRow(1, Str1, 20, 5, 40, 35), BallotRow(2, Str01, 1, 1, 2, 3),
      BallotRow(3, Str2A, 2, 0, 1, 0), BallotRow(4, StrZZ, 3, 1, 4, 2)>>

\* Cell values fixed by the row's position where a table is enumerated in
\* its other columns.
PositionDepartmentCodes == <<Str01, Str2A, Str1, Str01>>

PositionRegionCodes == <<"84", "94", "84", "94">>

PositionBallotCodes == <<Str1, Str2A, Str1, Str2A>>

\* regions.csv: columns code, name.
RegionTables == SeqUpTo([code : RegionCodes, name : RegionNames], MaxRegions)

\* departments.csv: columns region_code, code, name; the name identifies
\* the row.  Enumerated in region_code, and in code.
DepartmentsByRegion ==
    {[i \in DOMAIN t |->
        [region_code |-> t[i], code |-> PositionDepartmentCodes[i],
         name |-> DepartmentNames[i]]] :
     t \in SeqUpTo(RegionCodes, MaxDepartments)}

DepartmentsByCode ==
    {[i \in DOMAIN t |->
        [region_code |-> PositionRegionCodes[i], code |-> t[i],
         name |-> DepartmentNames[i]]] :
     t \in SeqUpTo(DepartmentCodes, MaxDepartments)}

\* referendum.csv.  Enumerated in 'Department code', and in the counts.
BallotsByCode ==
    {[i \in DOMAIN t |-> BallotRow(i, t[i], i, 1, i, 1)] :
     t \in SeqUpTo(BallotCodes, MaxBallots)}

BallotsByCount ==
    {[i \in DOMAIN t |->
        BallotRow(i, PositionBallotCodes[i], i, 1, t[i].a, t[i].b)] :
     t \in SeqUpTo([a : 0..MaxCount, b : 0..MaxCount], MaxBallots)}

\* regions.geojson: columns nom, geometry; the polygon identifies the row.
GeoTables ==
    {[i \in DOMAIN t |-> [nom |-> t[i], geometry |-> Polygons[i]]] :
     t \in SeqUpTo(RegionNames, MaxGeo)}

\* The explored input files.  Each stage is enumerated in the columns it
\* reads: the region join in the region table and the departments'
\* region_code, the ballot merge in the departments' code and the ballots'
\* 'Department code', the aggregation and the ratio in the counts.
Inputs ==
    {<<r, d, ReferenceReferendum>> :
        r \in RegionTables, d \in DepartmentsByRegion}
    \cup
    {<<ReferenceRegions, d, b>> :
        d \in DepartmentsByCode, b \in BallotsByCode}
    \cup
    {<<ReferenceRegions, ReferenceDepartments, b>> : b \in BallotsByCount}

(***************************************************************************)
(* merge_regions_and_departments                                           *)
(***************************************************************************)
\* Variant: the mask is lost and the name is written to every row.
SetNameRegAllRows(df, row) ==
    [i \in DOMAIN df |-> [df[i] EXCEPT !["name_reg"] = row.name]]

\* df.loc[df["code_reg"] == row["code"], "name_reg"] = row["name"]
SetNameReg(df, row) ==
    [i \in DOMAIN df |->
        IF df[i]["code_reg"] = row.code
        THEN [df[i] EXCEPT !["name_reg"] = row.name]
        ELSE df[i]]

RECURSIVE RegionsLoop(_, _, _)
RegionsLoop(df, regs, k) ==
    IF k > Len(regs) THEN df
    ELSE RegionsLoop(SetNameReg(df, regs[k]), regs, k + 1)

\* Variant: an inner join, the departments without a region dropped.
merge_regions_and_departments_inner(regs, deps) ==
    LET df == [i \in DOMAIN deps |->
                 [code_reg |-> deps[i].region_code, name_reg |-> "",
                  code_dep |-> deps[i].code, name_dep |-> deps[i].name]]
        resolved(r) == \E k \in DOMAIN regs : regs[k].code = r["code_reg"]
    IN SelectSeq(RegionsLoop(df, regs, 1), resolved)

merge_regions_and_departments(regs, deps) ==
    LET df == [i \in DOMAIN deps |->
                 [code_reg |-> deps[i].region_code, name_reg |-> "",
                  code_dep |-> deps[i].code, name_dep |-> deps[i].name]]
    IN RegionsLoop(df, regs, 1)

(***************************************************************************)
(* merge_referendum_and_areas                                              *)
(***************************************************************************)
\* Variant: the alphabetic codes are not removed.
dep_codes_unfiltered(ref) == {ref[i]["Department code"] : i \in DOMAIN ref}

\* Variant: only the all-digit codes are kept (a str.isdigit filter).
dep_codes_numeric(ref) ==
    {c \in {ref[i]["Department code"] : i \in DOMAIN ref} : ParsesAsInt(c)}

\* np.unique(referendum["Department code"]) without the alphabetic codes.
dep_codes(ref) ==
    {c \in {ref[i]["Department code"] : i \in DOMAIN ref} : ~isalpha(c)}

\* referendum.loc[referendum["Department code"].isin(dep_codes)], with the
\* lookup table's four columns added, every cell the empty string.
FilteredBallots(ref) ==
    LET keep(r) == r["Department code"] \in dep_codes(ref)
        kept == SelectSeq(ref, keep)
    IN [i \in DOMAIN kept |->
           kept[i] @@ ("code_reg" :> "") @@ ("name_reg" :> "") @@
           ("code_dep" :> EmptyStr) @@ ("name_dep" :> "")]

\* Variant: the record's code is compared as it is, without str(int(.)).
MergeRowUnnormalised(df, row) ==
    [i \in DOMAIN df |->
        IF df[i]["Department code"] = row["code_dep"]
        THEN [df[i] EXCEPT !["code_dep"] = row["code_dep"],
                           !["name_dep"] = row["name_dep"],
                           !["code_reg"] = row["code_reg"],
                           !["name_reg"] = row["name_reg"]]
        ELSE df[i]]

\* One iteration of the loop over the lookup table's rows.
MergeRow(df, row) ==
    LET dep_code == NormDepCode(row["code_dep"])
    IN [i \in DOMAIN df |->
           IF df[i]["Department code"] = dep_code
           THEN [df[i] EXCEPT !["code_dep"] = row["code_dep"],
                              !["name_dep"] = row["name_dep"],
                              !["code_reg"] = row["code_reg"],
                              !["name_reg"] = row["name_reg"]]
           ELSE df[i]]

RECURSIVE AreasLoop(_, _, _)
AreasLoop(df, rd, k) ==
    IF k > Len(rd) THEN df
    ELSE AreasLoop(MergeRow(df, rd[k]), rd, k + 1)

\* Variant: an inner merge, the ballot rows without a record dropped.
merge_referendum_and_areas_inner(ref, rd) ==
    LET matched(r) == r["code_dep"] # EmptyStr
    IN SelectSeq(AreasLoop(FilteredBallots(ref), rd, 1), matched)

merge_referendum_and_areas(ref, rd) == AreasLoop(FilteredBallots(ref), rd, 1)

(***************************************************************************)
(* compute_referendum_result_by_regions                                    *)
(***************************************************************************)
RECURSIVE SumCol(_, _, _, _)
SumCol(df, col, name, k) ==
    IF k > Len(df) THEN 0
    ELSE (IF df[k]["name_reg"] = name THEN df[k][col] ELSE 0)
         + SumCol(df, col, name, k + 1)

\* Variant: the empty key is treated as missing and its group dropped.
GroupKeysDropEmpty(df) ==
    LET present(n) == n # "" /\ \E i \in DOMAIN df : df[i]["name_reg"] = n
    IN SelectSeq(NameOrder, present)

\* groupby(["name_reg"]): the distinct keys, sorted.
GroupKeys(df) ==
    LET present(n) == \E i \in DOMAIN df : df[i]["name_reg"] = n
    IN SelectSeq(NameOrder, present)

compute_referendum_result_by_regions(df) ==
    LET keys == GroupKeys(df)
    IN [g \in DOMAIN keys |->
           ("name_reg" :> keys[g]) @@
           ("Registered" :> SumCol(df, "Registered", keys[g], 1)) @@
           ("Abstentions" :> SumCol(df, "Abstentions", keys[g], 1)) @@
           ("Null" :> SumCol(df, "Null", keys[g], 1)) @@
           ("Choice A" :> SumCol(df, "Choice A", keys[g], 1)) @@
           ("Choice B" :> SumCol(df, "Choice B", keys[g], 1))]

(***************************************************************************)
(* plot_referendum_map                                                     *)
(***************************************************************************)
RECURSIVE Gcd(_, _)
Gcd(a, b) == IF b = 0 THEN a ELSE Gcd(b, a % b)

\* Variant: 'Choice A' over 'Choice B' alone.
RatioOverChoiceB(a, b) ==
    IF a = 0 /\ b = 0 THEN [nan |-> TRUE, num |-> 0, den |-> 0]
    ELSE [nan |-> FALSE, num |-> a \div Gcd(a, b), den |-> b \div Gcd(a, b)]

\* df["Choice A"] / (df["Choice B"] + df["Choice A"]): the quotient as a
\* fraction in lowest terms; 0 / 0 is NaN.
Ratio(a, b) ==
    IF b + a = 0 THEN [nan |-> TRUE, num |-> 0, den |-> 0]
    ELSE [nan |-> FALSE, num |-> a \div Gcd(a, b + a),
          den |-> (b + a) \div Gcd(a, b + a)]

\* region_map.loc[region_map["nom"] == name]["geometry"].values
GeometryValues(rmap, name) ==
    LET hit(g) == g.nom = name
        hits == SelectSeq(rmap, hit)
    IN [i \in DOMAIN hits |-> hits[i].geometry]

\* .values[0] raises IndexError on an empty array.
MissingGeometry(result, rmap) ==
    \E i \in DOMAIN result : Len(GeometryValues(rmap, result[i]["name_reg"])) = 0

GeoDataFrame(result, rmap) ==
    [i \in DOMAIN result |->
        result[i] @@
        ("geometry" :> GeometryValues(rmap, result[i]["name_reg"])[1]) @@
        ("ratio" :> Ratio(result[i]["Choice A"], result[i]["Choice B"]))]

(***************************************************************************)
(* The run: the script's entry point, one stage per step.                  *)
(***************************************************************************)
Init ==
    /\ pc = "load_data"
    /\ regions = <<>>
    /\ departments = <<>>
    /\ referendum = <<>>
    /\ regions_and_departments = <<>>
    /\ referendum_and_areas = <<>>
    /\ referendum_results = <<>>
    /\ region_map = <<>>
    /\ gdf = <<>>
    /\ err = "none"
    /\ plotted = FALSE

LoadData ==
    /\ pc = "load_data"
    /\ \E in \in Inputs :
          /\ regions' = in[1]
          /\ departments' = in[2]
          /\ referendum' = in[3]
    /\ pc' = "merge_regions_and_departments"
    /\ UNCHANGED <<regions_and_departments, referendum_and_areas,
                   referendum_results, region_map, gdf, err, plotted>>

MergeRegionsAndDepartments ==
    /\ pc = "merge_regions_and_departments"
    /\ regions_and_departments' =
           merge_regions_and_departments(regions, departments)
    /\ pc' = "merge_referendum_and_areas"
    /\ UNCHANGED <<regions, departments, referendum, referendum_and_areas,
                   referendum_results, region_map, gdf, err, plotted>>

MergeReferendumAndAreas ==
    /\ pc = "merge_referendum_and_areas"
    /\ referendum_and_areas' =
           merge_referendum_and_areas(referendum, regions_and_departments)
    /\ pc' = "compute_referendum_result_by_regions"
    /\ UNCHANGED <<regions, departments, referendum, regions_and_departments,
                   referendum_results, region_map, gdf, err, plotted>>

ComputeReferendumResultByRegions ==
    /\ pc = "compute_referendum_result_by_regions"
    /\ referendum_results' =
           compute_referendum_result_by_regions(referendum_and_areas)
    /\ pc' = "plot_referendum_map"
    /\ UNCHANGED <<regions, departments, referendum, regions_and_departments,
                   referendum_and_areas, region_map, gdf, err, plotted>>

\* Variant: a region without a polygon is skipped and the rest is plotted.
PlotReferendumMapSkipUnresolved ==
    /\ pc = "plot_referendum_map"
    /\ \E rmap \in GeoTables :
          LET resolved(r) == Len(GeometryValues(rmap, r["name_reg"])) > 0
          IN /\ region_map' = rmap
             /\ gdf' = GeoDataFrame(SelectSeq(referendum_results, resolved),
                                    rmap)
    /\ err' = "none"
    /\ plotted' = TRUE
    /\ pc' = "done"
    /\ UNCHANGED <<regions, departments, referendum, regions_and_departments,
                   referendum_and_areas, referendum_results>>

\* The geometry lookups come first; an IndexError leaves the function
\* before the GeoDataFrame is built, plotted or returned.
PlotReferendumMap ==
    /\ pc = "plot_referendum_map"
    /\ \E rmap \in GeoTables :
          /\ region_map' = rmap
          /\ IF MissingGeometry(referendum_results, rmap)
             THEN /\ err' = "IndexError"
                  /\ gdf' = <<>>
                  /\ plotted' = FALSE
                  /\ pc' = "failed"
             ELSE /\ err' = "none"
                  /\ gdf' = GeoDataFrame(referendum_results, rmap)
                  /\ plotted' = TRUE
                  /\ pc' = "done"
    /\ UNCHANGED <<regions, departments, referendum, regions_and_departments,
                   referendum_and_areas, referendum_results>>

Next ==
    \/ LoadData
    \/ MergeRegionsAndDepartments
    \/ MergeReferendumAndAreas
    \/ ComputeReferendumResultByRegions
    \/ PlotReferendumMap

Spec == Init /\ [][Next]_vars

(***************************************************************************)
(* Vocabulary of the properties.                                           *)
(***************************************************************************)
AreasJoined == pc \notin {"load_data", "merge_regions_and_departments"}

BallotsMerged ==
    pc \in {"compute_referendum_result_by_regions", "plot_referendum_map",
            "done", "failed"}

ResultsComputed == pc \in {"plot_referendum_map", "done", "failed"}

MapCalled == pc \in {"done", "failed"}

CountColumns == {"Registered", "Abstentions", "Null", "Choice A", "Choice B"}

BallotColumns == CountColumns \cup {"Department code", "Town code"}

RECURSIVE SeqSum(_)
SeqSum(s) == IF Len(s) = 0 THEN 0 ELSE s[1] + SeqSum(Tail(s))

\* The sum of a column over a whole table.
Total(df, col) == SeqSum([i \in DOMAIN df |-> df[i][col]])

MaxOf(S) == CHOOSE k \in S : \A j \in S : j <= k

NonAlphabeticBallots ==
    LET nonalpha(r) == ~isalpha(r["Department code"])
    IN SelectSeq(referendum, nonalpha)

\* The lookup records that match a ballot code: the record's code, put
\* through str(int(.)) when it parses as an integer, equals the ballot code.
MatchingRecords(code) ==
    {k \in DOMAIN regions_and_departments :
        code = NormDepCode(regions_and_departments[k]["code_dep"])}

AreaFieldsEmpty(row) ==
    /\ row["code_reg"] = ""
    /\ row["name_reg"] = ""
    /\ row["code_dep"] = EmptyStr
    /\ row["name_dep"] = ""

AreaFieldsOf(row, rec) ==
    /\ row["code_reg"] = rec["code_reg"]
    /\ row["name_reg"] = rec["name_reg"]
    /\ row["code_dep"] = rec["code_dep"]
    /\ row["name_dep"] = rec["name_dep"]

\* Two codes are equal as integers when both parse, as strings otherwise.
EqualUnderIntNormalisation(a, b) ==
    IF ParsesAsInt(a) /\ ParsesAsInt(b) THEN IntOf(a) = IntOf(b) ELSE a = b

(***************************************************************************)
(* C1: no row of the output of merge_referendum_and_areas has a purely     *)
(* alphabetic 'Department code', and the totals produced by                *)
(* compute_referendum_result_by_regions are exactly the totals of the      *)
(* ballot rows whose code is not purely alphabetic: an alphabetic row      *)
(* contributes to none of them.                                            *)
(***************************************************************************)
C1_NoAlphabeticRow ==
    /\ BallotsMerged =>
          \A i \in DOMAIN referendum_and_areas :
              ~isalpha(referendum_and_areas[i]["Department code"])
    /\ ResultsComputed =>
          \A col \in CountColumns :
              Total(referendum_results, col) = Total(NonAlphabeticBallots, col)

C1_Witness ==
    /\ ResultsComputed
    /\ Len(referendum_results) > 0
    /\ \E b \in DOMAIN referendum :
          /\ referendum[b]["Department code"] = StrZZ
          /\ referendum[b]["Registered"] > 0

(***************************************************************************)
(* C2 as stated: a ballot row and a lookup record match when their codes   *)
(* are equal under integer normalisation in both directions, and every     *)
(* matched ballot row carries the four fields of a record it matches.      *)
(***************************************************************************)
MatchesBothWays(row) ==
    {k \in DOMAIN regions_and_departments :
        EqualUnderIntNormalisation(row["Department code"],
                                   regions_and_departments[k]["code_dep"])}

C2_Original ==
    BallotsMerged =>
        \A i \in DOMAIN referendum_and_areas :
            MatchesBothWays(referendum_and_areas[i]) # {} =>
                \E k \in MatchesBothWays(referendum_and_areas[i]) :
                    AreaFieldsOf(referendum_and_areas[i],
                                 regions_and_departments[k])

(***************************************************************************)
(* C2 amended: only the record's code is normalised.  A ballot row matches *)
(* a record exactly when its 'Department code' is string-equal to the      *)
(* record's code_dep after str(int(.)) (when that parses; as is            *)
(* otherwise).  A matched row carries the four fields of the last record   *)
(* in table order that matches it; a row no record matches keeps the four  *)
(* fields empty.                                                           *)
(***************************************************************************)
C2_RecordSideNormalisation ==
    BallotsMerged =>
        \A i \in DOMAIN referendum_and_areas :
            LET row == referendum_and_areas[i]
                M == MatchingRecords(row["Department code"])
            IN IF M = {}
               THEN AreaFieldsEmpty(row)
               ELSE AreaFieldsOf(row, regions_and_departments[MaxOf(M)])

\* Record "01" has been attached to a ballot row coded "1" while a ballot
\* row coded "01" stayed without a record.
C2_Witness ==
    /\ BallotsMerged
    /\ \E i, j \in DOMAIN referendum_and_areas :
          /\ referendum_and_areas[i]["Department code"] = Str1
          /\ referendum_and_areas[i]["code_dep"] = Str01
          /\ referendum_and_areas[j]["Department code"] = Str01
          /\ referendum_and_areas[j]["code_dep"] = EmptyStr

(***************************************************************************)
(* C3: the sum of 'Registered' over the rows of the aggregated result      *)
(* equals the sum of 'Registered' over the enriched ballot rows, the rows  *)
(* whose name_reg is the empty string included.                            *)
(***************************************************************************)
C3_RegisteredConserved ==
    ResultsComputed =>
        Total(referendum_results, "Registered")
            = Total(referendum_and_areas, "Registered")

C3_Witness ==
    /\ ResultsComputed
    /\ \E i, j \in DOMAIN referendum_and_areas :
          /\ referendum_and_areas[i]["name_reg"] = ""
          /\ referendum_and_areas[i]["Registered"] > 0
          /\ referendum_and_areas[j]["name_reg"] # ""
          /\ referendum_and_areas[j]["Registered"] > 0

(***************************************************************************)
(* C4: merge_regions_and_departments outputs one record per department     *)
(* row, in the departments' order, and a department whose region_code is   *)
(* the code of a region gets that region's name as name_reg (when the      *)
(* region table repeats the code, the region meant is the last one with    *)
(* that code).                                                             *)
(***************************************************************************)
C4_OneRecordPerDepartment ==
    AreasJoined =>
        /\ Len(regions_and_departments) = Len(departments)
        /\ \A i \in DOMAIN departments :
              /\ regions_and_departments[i]["code_reg"]
                     = departments[i].region_code
              /\ regions_and_departments[i]["code_dep"] = departments[i].code
              /\ regions_and_departments[i]["name_dep"] = departments[i].name
              /\ \A k \in DOMAIN regions :
                    (/\ regions[k].code = departments[i].region_code
                     /\ \A j \in DOMAIN regions :
                           regions[j].code = regions[k].code => j <= k)
                    => regions_and_departments[i]["name_reg"] = regions[k].name

\* Two departments of two different regions, both resolved.
C4_Witness ==
    /\ AreasJoined
    /\ Len(departments) >= 2
    /\ \E i, j \in DOMAIN regions_and_departments :
          /\ regions_and_departments[i]["name_reg"] = "Auvergne-Rhone-Alpes"
          /\ regions_and_departments[j]["name_reg"] = "Corse"
          /\ i < j

(***************************************************************************)
(* C5 as stated: the aggregated result has one row per distinct name_reg   *)
(* of its input, and every row carries the region code code_reg of its     *)
(* group.                                                                  *)
(***************************************************************************)
C5_Original ==
    ResultsComputed =>
        /\ \A i \in DOMAIN referendum_and_areas :
              \E g \in DOMAIN referendum_results :
                  referendum_results[g]["name_reg"]
                      = referendum_and_areas[i]["name_reg"]
        /\ \A g, h \in DOMAIN referendum_results :
              referendum_results[g]["name_reg"]
                  = referendum_results[h]["name_reg"] => g = h
        /\ \A g \in DOMAIN referendum_results :
              "code_reg" \in DOMAIN referendum_results[g]

(***************************************************************************)
(* C6 as stated: when a row of the aggregated result has a name_reg that   *)
(* no row of the geographic table carries, plot_referendum_map fails with  *)
(* UnresolvedReferenceError, plots nothing and returns no table.           *)
(***************************************************************************)
GeometryUnresolved ==
    \E g \in DOMAIN referendum_results :
        \A j \in DOMAIN region_map :
            region_map[j].nom # referendum_results[g]["name_reg"]

C6_Original ==
    (MapCalled /\ GeometryUnresolved) =>
        /\ pc = "failed"
        /\ err = "UnresolvedReferenceError"
        /\ ~plotted
        /\ gdf = <<>>

(***************************************************************************)
(* C6 amended: in that case plot_referendum_map fails with IndexError      *)
(* (the first-match lookup indexes an empty array) before any rendering:   *)
(* it plots nothing and returns no table.                                  *)
(***************************************************************************)
C6_IndexErrorBeforeRendering ==
    (MapCalled /\ GeometryUnresolved) =>
        /\ pc = "failed"
        /\ err = "IndexError"
        /\ ~plotted
        /\ gdf = <<>>

\* The first region of the result has a polygon, the second has none.
C6_Witness ==
    /\ pc = "failed"
    /\ Len(referendum_results) = 2
    /\ Len(region_map) > 0
    /\ region_map[1].nom = referendum_results[1]["name_reg"]
    /\ GeometryUnresolved

(***************************************************************************)
(* C7 as stated: a department whose region_code is the code of no region   *)
(* is surfaced as an error; the joiner does not silently output a record   *)
(* with an empty name_reg for it.                                          *)
(***************************************************************************)
RegionUnresolved(i) ==
    \A k \in DOMAIN regions : regions[k].code # departments[i].region_code

C7_Original ==
    AreasJoined =>
        \A i \in DOMAIN departments :
            RegionUnresolved(i) =>
                \/ err # "none"
                \/ ~(/\ i \in DOMAIN regions_and_departments
                     /\ regions_and_departments[i]["name_reg"] = "")

(***************************************************************************)
(* C7 amended: a department whose region_code is the code of no region     *)
(* still yields its record, with name_reg the empty string, and the joiner *)
(* raises nothing: the run goes on to merge_referendum_and_areas.          *)
(***************************************************************************)
C7_SilentEmptyName ==
    AreasJoined =>
        /\ Len(regions_and_departments) = Len(departments)
        /\ \A i \in DOMAIN departments :
              RegionUnresolved(i) =>
                  /\ regions_and_departments[i]["name_reg"] = ""
                  /\ regions_and_departments[i]["code_dep"]
                         = departments[i].code
        /\ pc = "merge_referendum_and_areas" => err = "none"

\* An unresolved department next to a resolved one.
C7_Witness ==
    /\ pc = "merge_referendum_and_areas"
    /\ \E i, j \in DOMAIN departments :
          /\ RegionUnresolved(i)
          /\ ~RegionUnresolved(j)
          /\ regions_and_departments[i]["name_reg"] = ""
          /\ regions_and_departments[j]["name_reg"] # ""

(***************************************************************************)
(* C8: in every row of the table plot_referendum_map returns with          *)
(* 'Choice A' + 'Choice B' > 0, ratio is the number 'Choice A' /           *)
(* ('Choice A' + 'Choice B') and lies within [0, 1].                       *)
(***************************************************************************)
C8_RatioInUnitInterval ==
    pc = "done" =>
        \A i \in DOMAIN gdf :
            LET a == gdf[i]["Choice A"]
                b == gdf[i]["Choice B"]
                q == gdf[i]["ratio"]
            IN a + b > 0 =>
                  /\ ~q.nan
                  /\ q.den > 0
                  /\ q.num * (a + b) = a * q.den
                  /\ 0 <= q.num
                  /\ q.num <= q.den

\* A returned row whose ratio is strictly between 0 and 1.
C8_Witness ==
    /\ pc = "done"
    /\ \E i \in DOMAIN gdf : gdf[i]["Choice A"] > 0 /\ gdf[i]["Choice B"] > 0

(***************************************************************************)
(* C9 as stated: every row of the output of merge_referendum_and_areas has *)
(* a purely numeric 'Department code'; a code mixing digits and letters    *)
(* never survives the filter.                                              *)
(***************************************************************************)
C9_Original ==
    BallotsMerged =>
        \A i \in DOMAIN referendum_and_areas :
            ParsesAsInt(referendum_and_areas[i]["Department code"])

(***************************************************************************)
(* C9 amended: the filter removes the purely alphabetic codes only.  The   *)
(* output rows are, in order, the ballot rows whose 'Department code' is   *)
(* not purely alphabetic, their ballot columns unchanged; a code mixing    *)
(* digits and letters survives.                                            *)
(***************************************************************************)
C9_NonAlphabeticSurvive ==
    BallotsMerged =>
        /\ Len(referendum_and_areas) = Len(NonAlphabeticBallots)
        /\ \A i \in DOMAIN referendum_and_areas :
              \A col \in BallotColumns :
                  referendum_and_areas[i][col] = NonAlphabeticBallots[i][col]

\* A "2A" row in the output while a "ZZ" row of the input is gone.
C9_Witness ==
    /\ BallotsMerged
    /\ \E i \in DOMAIN referendum_and_areas :
          referendum_and_areas[i]["Department code"] = Str2A
    /\ \E b \in DOMAIN referendum :
          referendum[b]["Department code"] = StrZZ

(***************************************************************************)
(* C10 as stated: a ballot row that survives the filter and matches no     *)
(* lookup record never appears in the output with its four area fields     *)
(* empty, and is never aggregated into a group with an empty name.         *)
(***************************************************************************)
UnmatchedSurvivor(row) ==
    /\ ~isalpha(row["Department code"])
    /\ MatchingRecords(row["Department code"]) = {}

C10_Original ==
    /\ BallotsMerged =>
          \A i \in DOMAIN referendum_and_areas :
              UnmatchedSurvivor(referendum_and_areas[i])
                  => ~AreaFieldsEmpty(referendum_and_areas[i])
    /\ ResultsComputed =>
          ((\E b \in DOMAIN referendum : UnmatchedSurvivor(referendum[b]))
              => \A g \in DOMAIN referendum_results :
                     referendum_results[g]["name_reg"] # "")

(***************************************************************************)
(* C10 amended: such a ballot row is neither dropped nor an error.  It is  *)
(* in the output of merge_referendum_and_areas with code_reg, name_reg,    *)
(* code_dep and name_dep all empty, and the aggregation counts it in the   *)
(* group whose name_reg is the empty string.                               *)
(***************************************************************************)
UnmatchedBallots ==
    LET unmatched(r) == UnmatchedSurvivor(r)
    IN SelectSeq(referendum, unmatched)

C10_UnmatchedKeptEmpty ==
    /\ BallotsMerged =>
          \A b \in DOMAIN UnmatchedBallots :
              \E i \in DOMAIN referendum_and_areas :
                  /\ referendum_and_areas[i]["Town code"]
                         = UnmatchedBallots[b]["Town code"]
                  /\ referendum_and_areas[i]["Registered"]
                         = UnmatchedBallots[b]["Registered"]
                  /\ AreaFieldsEmpty(referendum_and_areas[i])
    /\ (ResultsComputed /\ Len(UnmatchedBallots) > 0) =>
          \E g \in DOMAIN referendum_results :
              /\ referendum_results[g]["name_reg"] = ""
              /\ \A col \in CountColumns :
                    referendum_results[g][col] >= Total(UnmatchedBallots, col)

\* An unmatched ballot row with registered voters next to a matched one.
C10_Witness ==
    /\ ResultsComputed
    /\ Len(referendum_results) = 2
    /\ \E b \in DOMAIN UnmatchedBallots :
          UnmatchedBallots[b]["Registered"] > 0

====
